---------------------------- MODULE Spec2Model ----------------------------
(***************************************************************************)
(* A model of two parts of the ministark repository:                      *)
(*                                                                         *)
(*   - Prover::generate_proof (mini-stark/src/prover.rs), as a sequence of *)
(*     steps over a Fiat-Shamir transcript (the prover channel and its     *)
(*     public coin);                                                       *)
(*   - the brainfuck MemoryTable (brainfuck/src/memory_table.rs): pad and  *)
(*     the transition constraints, evaluated over a small prime field.     *)
(***************************************************************************)
EXTENDS Integers, Sequences, FiniteSets, TLC

(***************************************************************************)
(* Bounds of the model.                                                    *)
(***************************************************************************)
\* widest base trace / declared NUM_BASE_COLUMNS tried
MaxCols == 2
\* widest extension trace / declared NUM_EXTENSION_COLUMNS tried
MaxExtCols == 1
\* contents of the trace are one of 0..MaxTrace
MaxTrace == 1
\* the wall clock read by Timer::new is one of 0..MaxTime
MaxTime == 1
\* size of the digest space of the transcript hash
HashMod == 7
\* the field of the memory table is GF(PrimeAt(PrimeIdx))
PrimeIdx == 3
\* cells of the rows tried are in 0..MaxVal
MaxVal == 2
\* longest memory table tried
MaxLen == 5
\* longest processor matrix tried
MaxProc == 4
\* longest extended memory table tried
MaxRows == 3
\* how often get_ood_point draws again after a collision
MaxRedraws == 1
\* the challenges d, e, f, beta and the cells of the pair of rows tried are in 0..MaxChal
MaxChal == 1

VARIABLES
    inp,        \* the arguments of generate_proof and the build it runs in
    pc,         \* pc[r]: the statement run r of generate_proof is at
    timer,      \* timer[r]: the instant Timer::new read
    channel,    \* channel[r]: the ProverChannel of run r (NoChannel before line 41)
    loc,        \* loc[r]: the local variables of run r
    result,     \* result[r]: "running", "Ok", "Err" or "panic"
    proof,      \* proof[r]: the Proof returned, NoProof before
    built,      \* built[r]: how many times channel.build_proof ran
    matrix,     \* MemoryTable.table.matrix
    matrix0,    \* the matrix before pad (history)
    padState,   \* "idle", "done" or "panic" (last().unwrap() on an empty matrix)
    rows,       \* the pair of adjacent rows and the challenges the constraints are evaluated at
    cons,       \* the evaluated constraints, <<>> before
    processor_matrix,   \* the argument of MemoryTable::derive_matrix
    derived,    \* how derive_matrix ended, and its local matrix at that moment
    table,      \* an extended memory table (rows with the permutation column)
    terminal    \* the challenges, the terminals and the evaluated terminal constraints

vars == <<inp, pc, timer, channel, loc, result, proof, built,
          matrix, matrix0, padState, rows, cons, processor_matrix, derived, table, terminal>>

Runs == {1, 2}

(***************************************************************************)
(* Values.  A value carries the digest-sized number it stands for and the  *)
(* transcript draws it was computed from.                                  *)
(***************************************************************************)
Val(v, deps) == [v |-> v % HashMod, deps |-> deps]

NoVal == Val(0, {})

\* a value computed from one / two / three others by the function numbered k
Fn1(k, a) == Val(k + 2 * a.v, a.deps)

Fn2(k, a, b) == Val(k + 2 * a.v + 3 * b.v, a.deps \cup b.deps)

Fn3(k, a, b, c) == Val(k + 2 * a.v + 3 * b.v + 5 * c.v, a.deps \cup b.deps \cup c.deps)

(***************************************************************************)
(* The prover channel: a public coin (running hash) and the record of the  *)
(* calls made on it.                                                       *)
(***************************************************************************)
NoChannel == [created |-> FALSE, state |-> 0, log |-> <<>>]

\* ProverChannel::new(&air): the coin is seeded from the AIR's public parameters
NewChannel(seed) == [created |-> TRUE, state |-> (seed.v + 1) % HashMod, log |-> <<>>]

\* a commit_* / send_* call: absorbs x
Absorb(c, op, x) ==
    [c EXCEPT !.state = (3 * c.state + x.v + 1) % HashMod,
              !.log = Append(c.log, [op |-> op, kind |-> "absorb", v |-> x.v, deps |-> x.deps])]

\* the value a get_* call squeezes out of the coin
Drawn(c, op) == Val(c.state, {op})

\* a get_* call: squeezes a value and moves the coin on
Draw(c, op) ==
    [c EXCEPT !.state = (2 * c.state + 1) % HashMod,
              !.log = Append(c.log, [op |-> op, kind |-> "draw", v |-> c.state, deps |-> {op}])]

\* channel.grind_fri_commitments: the least nonce that brings the coin to an even state
GrindNonce(c) == CHOOSE n \in 0..1 : (c.state + n) % 2 = 0

Grind(c) ==
    [c EXCEPT !.state = (5 * c.state + GrindNonce(c) + 1) % HashMod,
              !.log = Append(c.log, [op |-> "grind_fri_commitments", kind |-> "grind",
                                     v |-> GrindNonce(c), deps |-> {}])]

Ops(c) == [i \in 1..Len(c.log) |-> c.log[i].op]

\* line 43: air.trace_domain(), as the coin values that are its points
TraceDomain == {1, HashMod - 1}

\* line 44: air.lde_domain(), a coset next to the trace domain
LdeDomain == {2, HashMod - 2}

\* the points z must stay away from
ReservedDomain == TraceDomain \cup LdeDomain

\* channel.get_ood_point: draws z, and while z collides with a reserved domain draws
\* again, at most `tries` more times; it never fails, so the last draw is returned as
\* it is.  The draws thrown away are recorded as "discarded_ood_point".
RECURSIVE OodPoint(_, _)
OodPoint(c, tries) ==
    IF c.state \in ReservedDomain /\ tries > 0
      THEN OodPoint(Draw(c, "discarded_ood_point"), tries - 1)
      ELSE [z |-> Drawn(c, "get_ood_point"), channel |-> Draw(c, "get_ood_point")]

(***************************************************************************)
(* generate_proof                                                          *)
(***************************************************************************)
NoExt == [some |-> FALSE, cols |-> 0]

Inputs ==
    [ shapeOk    : BOOLEAN,                \* air.validate() finds trace and AIR consistent
      debug      : BOOLEAN,                \* cfg(debug_assertions)
      numBase    : 1..MaxCols,             \* Trace::NUM_BASE_COLUMNS
      baseCols   : 1..MaxCols,             \* trace.base_columns().num_cols()
      numExt     : 0..MaxExtCols,          \* Trace::NUM_EXTENSION_COLUMNS
      ext        : {NoExt} \cup [some : {TRUE}, cols : 1..MaxExtCols],
                                           \* what trace.build_extension_columns returns
      traceOk    : BOOLEAN,                \* the execution trace satisfies the constraints
      friOk      : BOOLEAN,                \* deep_composition_lde.try_into() is Ok
      trace      : 0..MaxTrace ]           \* the contents of the trace

NoLoc ==
    [ air |-> NoVal, base_trace_polys |-> NoVal, base_trace_lde |-> NoVal,
      base_trace_lde_tree |-> NoVal,
      challenges |-> NoVal, execution_trace |-> NoVal,
      execution_trace_lde |-> NoVal, execution_trace_polys |-> NoVal,
      extension_trace_tree |-> [some |-> FALSE, tree |-> NoVal],
      num_extension_columns |-> 0, lde_cols |-> 0, polys_cols |-> 0,
      lde_layout |-> <<>>, polys_layout |-> <<>>,
      composer_layout |-> <<>>, deep_layout |-> <<>>,
      composition_coeffs |-> NoVal, composition_trace_lde |-> NoVal,
      composition_trace_polys |-> NoVal, composition_trace_lde_tree |-> NoVal,
      z |-> NoVal, deep_z |-> NoVal, ood_execution_trace_evals |-> NoVal,
      ood_execution_trace_evals_next |-> NoVal, ood_composition_trace_evals |-> NoVal,
      deep_coeffs |-> NoVal, deep_cols |-> 0, deep_composition_lde |-> NoVal,
      fri_layers |-> NoVal, query_positions |-> NoVal,
      fri_proof |-> [positions |-> NoVal, layers |-> NoVal],
      queries |-> [positions |-> NoVal, base |-> NoVal,
                   extension |-> [some |-> FALSE, tree |-> NoVal], composition |-> NoVal] ]

NoProof == [some |-> FALSE]

InitProver ==
    /\ inp \in Inputs
    /\ pc = [r \in Runs |-> "start"]
    /\ timer = [r \in Runs |-> 0]
    /\ channel = [r \in Runs |-> NoChannel]
    /\ loc = [r \in Runs |-> NoLoc]
    /\ result = [r \in Runs |-> "running"]
    /\ proof = [r \in Runs |-> NoProof]
    /\ built = [r \in Runs |-> 0]

\* no run of generate_proof: the state of the prover while the memory table is studied
IdleProver ==
    /\ inp = <<>>
    /\ pc = <<>>
    /\ timer = <<>>
    /\ channel = <<>>
    /\ loc = <<>>
    /\ result = <<>>
    /\ proof = <<>>
    /\ built = <<>>

\* a statement of run r: guarded by its place, and by the run not having ended
At(r, p) == pc[r] = p /\ result[r] = "running"

Goto(r, p) == pc' = [pc EXCEPT ![r] = p]

\* a panic: an assert_eq!, an unwrap or an abort inside a callee; the run stops where it is
Panic(r) ==
    /\ result' = [result EXCEPT ![r] = "panic"]
    /\ UNCHANGED <<pc, channel, loc, proof, built>>

\* lines 34-39: the timer, the options, the trace info, the public inputs and the AIR
Start(r) ==
    /\ At(r, "start")
    /\ \E t \in 0..MaxTime : timer' = [timer EXCEPT ![r] = t]
    /\ loc' = [loc EXCEPT ![r].air = Val(1 + inp.trace, {})]
    /\ Goto(r, "validate")
    /\ UNCHANGED <<inp, channel, result, proof, built>>

\* mutant: the channel is created before the AIR is validated
ValidateAfterChannel(r) ==
    /\ At(r, "validate")
    /\ channel' = [channel EXCEPT ![r] = NewChannel(loc[r].air)]
    /\ IF inp.shapeOk
         THEN Goto(r, "interpolate") /\ UNCHANGED <<loc, result, proof, built>>
         ELSE result' = [result EXCEPT ![r] = "panic"] /\ UNCHANGED <<pc, loc, proof, built>>
    /\ UNCHANGED <<inp, timer>>

\* line 40: air.validate() aborts on a trace/AIR shape mismatch
Validate(r) ==
    /\ At(r, "validate")
    /\ IF inp.shapeOk
         THEN Goto(r, "channel") /\ UNCHANGED <<channel, loc, result, proof, built>>
         ELSE Panic(r)
    /\ UNCHANGED <<inp, timer>>

\* line 41: ProverChannel::new(&air)
CreateChannel(r) ==
    /\ At(r, "channel")
    /\ channel' = [channel EXCEPT ![r] = NewChannel(loc[r].air)]
    /\ Goto(r, "interpolate")
    /\ UNCHANGED <<inp, timer, loc, result, proof, built>>

\* lines 43-46: interpolate the base columns; assert_eq!(NUM_BASE_COLUMNS, num_cols)
BaseColumnsAsserted == inp.numBase = inp.baseCols

\* the columns of a matrix, each named by the trace it comes from
Columns(kind, n) == [i \in 1..n |-> kind]

\* mutant: the appended columns are dropped
MatrixAppendDropped(columns, other) == columns

\* lines 68-69: Matrix::append puts the columns of the other matrix after its own
MatrixAppend(columns, other) == columns \o other

InterpolateBase(r) ==
    /\ At(r, "interpolate")
    /\ IF BaseColumnsAsserted
         THEN /\ loc' = [loc EXCEPT ![r].base_trace_polys = Fn1(1, Val(inp.trace, {})),
                                    ![r].polys_cols = inp.baseCols,
                                    ![r].polys_layout = Columns("base", inp.baseCols)]
              /\ Goto(r, "commit_base_trace")
              /\ UNCHANGED <<channel, result, proof, built>>
         ELSE Panic(r)
    /\ UNCHANGED <<inp, timer>>

\* mutant: the root is salted with the clock
BaseTraceRootSalted(r, tree) == Val(tree.v + timer[r], tree.deps)

\* line 49: what channel.commit_base_trace absorbs
BaseTraceRoot(r, tree) == tree

\* lines 47-49: evaluate on the LDE domain, commit to the rows, absorb the root
CommitBaseTrace(r) ==
    /\ At(r, "commit_base_trace")
    /\ LET lde == Fn1(2, loc[r].base_trace_polys)
           tree == Fn1(3, lde)
       IN /\ loc' = [loc EXCEPT ![r].base_trace_lde = lde,
                                ![r].base_trace_lde_tree = tree,
                                ![r].lde_cols = inp.baseCols,
                                ![r].lde_layout = Columns("base", inp.baseCols)]
          /\ channel' = [channel EXCEPT
                           ![r] = Absorb(@, "commit_base_trace", BaseTraceRoot(r, tree))]
    /\ Goto(r, "get_challenges")
    /\ UNCHANGED <<inp, timer, result, proof, built>>

\* line 50: air.get_challenges(&mut channel.public_coin)
GetChallenges(r) ==
    /\ At(r, "get_challenges")
    /\ loc' = [loc EXCEPT ![r].challenges = Drawn(channel[r], "get_challenges")]
    /\ channel' = [channel EXCEPT ![r] = Draw(@, "get_challenges")]
    /\ Goto(r, "extension")
    /\ UNCHANGED <<inp, timer, result, proof, built>>

\* lines 52-71: the extension columns, when the trace builds any
BuildExtension(r) ==
    /\ At(r, "extension")
    /\ IF inp.ext.some
         THEN LET extension_trace == Fn2(4, Val(inp.trace, {}), loc[r].challenges)
                  extension_trace_polys == Fn1(1, extension_trace)
                  extension_trace_lde == Fn1(2, extension_trace_polys)
                  extension_trace_lde_tree == Fn1(3, extension_trace_lde)
              IN /\ channel' = [channel EXCEPT
                       ![r] = Absorb(@, "commit_extension_trace", extension_trace_lde_tree)]
                 /\ loc' = [loc EXCEPT
                       ![r].num_extension_columns = inp.ext.cols,
                       ![r].execution_trace =
                           IF inp.debug THEN Fn2(5, Val(inp.trace, {}), extension_trace)
                                        ELSE NoVal,
                       ![r].execution_trace_lde =
                           Fn2(5, loc[r].base_trace_lde, extension_trace_lde),
                       ![r].execution_trace_polys =
                           Fn2(5, loc[r].base_trace_polys, extension_trace_polys),
                       ![r].lde_cols = @ + inp.ext.cols,
                       ![r].polys_cols = @ + inp.ext.cols,
                       ![r].lde_layout =
                           MatrixAppend(@, Columns("extension", inp.ext.cols)),
                       ![r].polys_layout =
                           MatrixAppend(@, Columns("extension", inp.ext.cols)),
                       ![r].extension_trace_tree =
                           [some |-> TRUE, tree |-> extension_trace_lde_tree]]
         ELSE /\ UNCHANGED channel
              /\ loc' = [loc EXCEPT
                       ![r].num_extension_columns = 0,
                       ![r].execution_trace =
                           IF inp.debug THEN Val(inp.trace, {}) ELSE NoVal,
                       ![r].execution_trace_lde = loc[r].base_trace_lde,
                       ![r].execution_trace_polys = loc[r].base_trace_polys,
                       ![r].extension_trace_tree = [some |-> FALSE, tree |-> NoVal]]
    /\ Goto(r, "assert_extension")
    /\ UNCHANGED <<inp, timer, result, proof, built>>

\* mutant: the assertion only bounds the width
ExtensionColumnsBounded(r) == inp.numExt >= loc[r].num_extension_columns

\* line 73: assert_eq!(NUM_EXTENSION_COLUMNS, num_extension_columns)
ExtensionColumnsAsserted(r) == inp.numExt = loc[r].num_extension_columns

AssertExtension(r) ==
    /\ At(r, "assert_extension")
    /\ IF ExtensionColumnsAsserted(r)
         THEN Goto(r, "validate_constraints") /\ UNCHANGED <<channel, loc, result, proof, built>>
         ELSE Panic(r)
    /\ UNCHANGED <<inp, timer>>

\* mutant: the validation is compiled out of every build
ConstraintsNeverValidated == TRUE

\* lines 75-76: under debug_assertions, air.validate_constraints aborts on a violated constraint
ConstraintsValidated == inp.debug => inp.traceOk

ValidateConstraints(r) ==
    /\ At(r, "validate_constraints")
    /\ IF ConstraintsValidated
         THEN Goto(r, "get_composition_coeffs")
              /\ UNCHANGED <<channel, loc, result, proof, built>>
         ELSE Panic(r)
    /\ UNCHANGED <<inp, timer>>

\* line 78: air.get_constraint_composition_coeffs(&mut channel.public_coin)
GetCompositionCoeffs(r) ==
    /\ At(r, "get_composition_coeffs")
    /\ loc' = [loc EXCEPT
                 ![r].composition_coeffs = Drawn(channel[r], "get_constraint_composition_coeffs")]
    /\ channel' = [channel EXCEPT ![r] = Draw(@, "get_constraint_composition_coeffs")]
    /\ Goto(r, "commit_composition_trace")
    /\ UNCHANGED <<inp, timer, result, proof, built>>

\* mutant: the composition trace root is never pushed into the channel
CommitCompositionForgotten(r) ==
    /\ At(r, "commit_composition_trace")
    /\ LET lde == Fn3(6, loc[r].composition_coeffs, loc[r].challenges,
                      loc[r].execution_trace_lde)
       IN loc' = [loc EXCEPT ![r].composition_trace_lde = lde,
                             ![r].composer_layout = loc[r].lde_layout,
                             ![r].composition_trace_polys = Fn1(7, lde),
                             ![r].composition_trace_lde_tree = Fn1(3, lde)]
    /\ Goto(r, "get_ood_point")
    /\ UNCHANGED <<inp, timer, channel, result, proof, built>>

\* lines 79-83: the constraint composer builds and commits the composition trace
CommitComposition(r) ==
    /\ At(r, "commit_composition_trace")
    /\ LET lde == Fn3(6, loc[r].composition_coeffs, loc[r].challenges,
                      loc[r].execution_trace_lde)
           polys == Fn1(7, lde)
           tree == Fn1(3, lde)
       IN /\ loc' = [loc EXCEPT ![r].composition_trace_lde = lde,
                                ![r].composer_layout = loc[r].lde_layout,
                                ![r].composition_trace_polys = polys,
                                ![r].composition_trace_lde_tree = tree]
          /\ channel' = [channel EXCEPT ![r] = Absorb(@, "commit_composition_trace", tree)]
    /\ Goto(r, "get_ood_point")
    /\ UNCHANGED <<inp, timer, result, proof, built>>

\* lines 85-86: channel.get_ood_point()
GetOodPoint(r) ==
    /\ At(r, "get_ood_point")
    /\ LET drawn == OodPoint(channel[r], MaxRedraws)
       IN /\ loc' = [loc EXCEPT ![r].z = drawn.z]
          /\ channel' = [channel EXCEPT ![r] = drawn.channel]
    /\ Goto(r, "send_ood_trace_states")
    /\ UNCHANGED <<inp, timer, result, proof, built>>

\* lines 87-89: the trace polynomials at z and at z * g
SendOodTraceStates(r) ==
    /\ At(r, "send_ood_trace_states")
    /\ LET evals == Fn2(8, loc[r].execution_trace_polys, loc[r].z)
           evals_next == Fn2(9, loc[r].execution_trace_polys, loc[r].z)
       IN /\ loc' = [loc EXCEPT ![r].ood_execution_trace_evals = evals,
                                ![r].ood_execution_trace_evals_next = evals_next]
          /\ channel' = [channel EXCEPT
                           ![r] = Absorb(@, "send_ood_trace_states", Fn2(10, evals, evals_next))]
    /\ Goto(r, "send_ood_constraint_evaluations")
    /\ UNCHANGED <<inp, timer, result, proof, built>>

\* mutant: the evaluations are sent only after the DEEP coefficients were drawn
SendOodConstraintEvaluationsLate(r) ==
    /\ At(r, "send_ood_constraint_evaluations")
    /\ LET z_n == Fn2(11, loc[r].z, loc[r].composition_trace_polys)
           evals == Fn2(8, loc[r].composition_trace_polys, z_n)
       IN /\ loc' = [loc EXCEPT
                       ![r].ood_composition_trace_evals = evals,
                       ![r].deep_coeffs = Drawn(channel[r], "get_deep_composition_coeffs")]
          /\ channel' = [channel EXCEPT
                           ![r] = Absorb(Draw(@, "get_deep_composition_coeffs"),
                                         "send_ood_constraint_evaluations", evals)]
    /\ Goto(r, "deep")
    /\ UNCHANGED <<inp, timer, result, proof, built>>

\* lines 90-92: the composition polynomials at z^h
SendOodConstraintEvaluations(r) ==
    /\ At(r, "send_ood_constraint_evaluations")
    /\ LET z_n == Fn2(11, loc[r].z, loc[r].composition_trace_polys)
           evals == Fn2(8, loc[r].composition_trace_polys, z_n)
       IN /\ loc' = [loc EXCEPT ![r].ood_composition_trace_evals = evals]
          /\ channel' = [channel EXCEPT
                           ![r] = Absorb(@, "send_ood_constraint_evaluations", evals)]
    /\ Goto(r, "get_deep_composition_coeffs")
    /\ UNCHANGED <<inp, timer, result, proof, built>>

\* line 94: air.get_deep_composition_coeffs(&mut channel.public_coin)
GetDeepCoeffs(r) ==
    /\ At(r, "get_deep_composition_coeffs")
    /\ loc' = [loc EXCEPT ![r].deep_coeffs = Drawn(channel[r], "get_deep_composition_coeffs")]
    /\ channel' = [channel EXCEPT ![r] = Draw(@, "get_deep_composition_coeffs")]
    /\ Goto(r, "deep")
    /\ UNCHANGED <<inp, timer, result, proof, built>>

\* lines 95-104: the DEEP composition polynomial and its LDE
\* mutant: the composer draws a point of its own
DeepPointRedrawn(r) == Drawn(channel[r], "get_ood_point")

\* line 95: the point DeepPolyComposer::new is given
DeepPoint(r) == loc[r].z

ComposeDeep(r) ==
    /\ At(r, "deep")
    /\ LET trace_part == Fn3(13, loc[r].execution_trace_polys,
                             loc[r].ood_execution_trace_evals,
                             loc[r].ood_execution_trace_evals_next)
           composition_part == Fn2(14, loc[r].composition_trace_polys,
                                   loc[r].ood_composition_trace_evals)
           composer == Fn2(15, loc[r].deep_coeffs, DeepPoint(r))
       IN loc' = [loc EXCEPT
                    ![r].deep_z = DeepPoint(r),
                    ![r].deep_cols = loc[r].polys_cols,
                    ![r].deep_layout = loc[r].polys_layout,
                    ![r].deep_composition_lde = Fn3(16, composer, trace_part, composition_part)]
    /\ Goto(r, "build_layers")
    /\ UNCHANGED <<inp, timer, channel, result, proof, built>>

\* line 107: try_into().unwrap() aborts when the conversion fails
BuildLayersFailed(r) ==
    Panic(r)

\* lines 106-107: the FRI prover commits its layers to the channel
BuildLayers(r) ==
    /\ At(r, "build_layers")
    /\ IF inp.friOk
         THEN LET layers == Fn1(12, loc[r].deep_composition_lde)
              IN /\ loc' = [loc EXCEPT ![r].fri_layers = layers]
                 /\ channel' = [channel EXCEPT ![r] = Absorb(@, "build_layers", layers)]
                 /\ Goto(r, "grind")
                 /\ UNCHANGED <<result, proof, built>>
         ELSE BuildLayersFailed(r)
    /\ UNCHANGED <<inp, timer>>

\* line 109: channel.grind_fri_commitments()
GrindFriCommitments(r) ==
    /\ At(r, "grind")
    /\ channel' = [channel EXCEPT ![r] = Grind(@)]
    /\ Goto(r, "get_fri_query_positions")
    /\ UNCHANGED <<inp, timer, loc, result, proof, built>>

\* line 111: channel.get_fri_query_positions()
GetFriQueryPositions(r) ==
    /\ At(r, "get_fri_query_positions")
    /\ loc' = [loc EXCEPT ![r].query_positions = Drawn(channel[r], "get_fri_query_positions")]
    /\ channel' = [channel EXCEPT ![r] = Draw(@, "get_fri_query_positions")]
    /\ Goto(r, "into_proof")
    /\ UNCHANGED <<inp, timer, result, proof, built>>

\* line 112: fri_prover.into_proof(&query_positions)
FriIntoProof(r) ==
    /\ At(r, "into_proof")
    /\ loc' = [loc EXCEPT ![r].fri_proof = [positions |-> loc[r].query_positions,
                                            layers |-> loc[r].fri_layers]]
    /\ Goto(r, "queries")
    /\ UNCHANGED <<inp, timer, channel, result, proof, built>>

\* mutant: the positions are drawn a second time for the trace queries
QueriesPositionsRedrawn(r) == Drawn(channel[r], "get_fri_query_positions")

\* line 120: the positions the trace and composition rows are opened at
QueriesPositions(r) == loc[r].query_positions

\* lines 114-121: Queries::new
NewQueries(r) ==
    /\ At(r, "queries")
    /\ loc' = [loc EXCEPT ![r].queries =
                 [positions |-> QueriesPositions(r),
                  base |-> Fn2(17, loc[r].base_trace_lde_tree, loc[r].execution_trace_lde),
                  extension |-> loc[r].extension_trace_tree,
                  composition |-> Fn2(17, loc[r].composition_trace_lde_tree,
                                      loc[r].composition_trace_lde)]]
    /\ Goto(r, "build_proof")
    /\ UNCHANGED <<inp, timer, channel, result, proof, built>>

\* what the channel puts in the proof: the roots, the evaluations and the nonce it absorbed
Sent(c) == SelectSeq(c.log, LAMBDA e : e.kind \in {"absorb", "grind"})

\* line 123: Ok(channel.build_proof(queries, fri_proof))
BuildProof(r) ==
    /\ At(r, "build_proof")
    /\ proof' = [proof EXCEPT ![r] = [some |-> TRUE,
                                      sent |-> Sent(channel[r]),
                                      queries |-> loc[r].queries,
                                      fri_proof |-> loc[r].fri_proof]]
    /\ built' = [built EXCEPT ![r] = @ + 1]
    /\ result' = [result EXCEPT ![r] = "Ok"]
    /\ Goto(r, "done")
    /\ UNCHANGED <<inp, timer, channel, loc>>

Step(r) ==
    \/ Start(r)
    \/ Validate(r)
    \/ CreateChannel(r)
    \/ InterpolateBase(r)
    \/ CommitBaseTrace(r)
    \/ GetChallenges(r)
    \/ BuildExtension(r)
    \/ AssertExtension(r)
    \/ ValidateConstraints(r)
    \/ GetCompositionCoeffs(r)
    \/ CommitComposition(r)
    \/ GetOodPoint(r)
    \/ SendOodTraceStates(r)
    \/ SendOodConstraintEvaluations(r)
    \/ GetDeepCoeffs(r)
    \/ ComposeDeep(r)
    \/ BuildLayers(r)
    \/ GrindFriCommitments(r)
    \/ GetFriQueryPositions(r)
    \/ FriIntoProof(r)
    \/ NewQueries(r)
    \/ BuildProof(r)

(***************************************************************************)
(* The memory table.  E is the prime field GF(P).                          *)
(***************************************************************************)
CYCLE == 0
MP == 1
MEM_VAL == 2
DUMMY == 3
\* extension columns
PERMUTATION == 4

Primes == <<2, 3, 5, 7, 11, 13, 17>>

P == Primes[PrimeIdx]

E == 0..(P - 1)

FAdd(a, b) == (a + b) % P

FSub(a, b) == (a + P - b) % P

FMul(a, b) == (a * b) % P

\* a row of the base table: [cycle, mp, mem_val, dummy]
Row(cycle, mp, mem_val, dummy) ==
    [col \in 0..3 |-> CASE col = CYCLE -> cycle
                        [] col = MP -> mp
                        [] col = MEM_VAL -> mem_val
                        [] col = DUMMY -> dummy]

\* usize::is_power_of_two
IsPowerOfTwo(n) == \E k \in 0..n : 2 ^ k = n

\* mutant: the padding row repeats the cycle of the last row
PaddingRowSameCycle(last_row) ==
    Row(last_row[CYCLE], last_row[MP], last_row[MEM_VAL], 1)

\* lines 65-70: the row pad pushes after last_row
PaddingRow(last_row) ==
    Row(FAdd(last_row[CYCLE], 1), last_row[MP], last_row[MEM_VAL], 1)

\* lines 63-71: the loop of pad; last().unwrap() panics on an empty matrix
RECURSIVE PadLoop(_)
PadLoop(m) ==
    IF IsPowerOfTwo(Len(m)) THEN [ok |-> TRUE, m |-> m]
    ELSE IF Len(m) = 0 THEN [ok |-> FALSE, m |-> m]
    ELSE PadLoop(Append(m, PaddingRow(m[Len(m)])))

\* MemoryTable::pad
Pad ==
    /\ padState = "idle"
    /\ LET out == PadLoop(matrix)
       IN /\ matrix' = out.m
          /\ padState' = IF out.ok THEN "done" ELSE "panic"
    /\ UNCHANGED <<matrix0, rows, cons, inp, pc, timer, channel, loc, result, proof, built>>
    /\ UNCHANGED <<processor_matrix, derived, table, terminal>>

\* a row of the processor matrix, by the columns derive_matrix reads
ProcessorRow(cycle, mp, mem_val, curr_instr) ==
    [CYCLE |-> cycle, MP |-> mp, MEM_VAL |-> mem_val, CURR_INSTR |-> curr_instr]

\* lines 23-37: the rows of a running program, with dummy = 0
RECURSIVE FilterMap(_)
FilterMap(pm) ==
    IF Len(pm) = 0 THEN <<>>
    ELSE LET row == Head(pm)
         IN IF row.CURR_INSTR = 0
              THEN FilterMap(Tail(pm))
              ELSE <<Row(row.CYCLE, row.MP, row.MEM_VAL, 0)>> \o FilterMap(Tail(pm))

\* Vec::insert(index, element), index counted from 0
VecInsert(m, index, element) ==
    SubSeq(m, 1, index) \o <<element>> \o SubSeq(m, index + 1, Len(m))

\* line 38: sort_by_key is a stable sort; the key is the integer of the MP cell
RECURSIVE SortByMp(_)
SortByMp(m) ==
    IF Len(m) = 0 THEN <<>>
    ELSE LET front == SortByMp(SubSeq(m, 1, Len(m) - 1))
             row == m[Len(m)]
             place == Cardinality({j \in 1..Len(front) : front[j][MP] <= row[MP]})
         IN VecInsert(front, place, row)

\* mutant: the inserted row is not flagged
InsertedRowUnflagged(curr_row) ==
    Row(FAdd(curr_row[CYCLE], 1), curr_row[MP], curr_row[MEM_VAL], 0)

\* lines 49-54: the dummy row inserted after curr_row
InsertedRow(curr_row) ==
    Row(FAdd(curr_row[CYCLE], 1), curr_row[MP], curr_row[MEM_VAL], 1)

\* lines 41-57: the insertion loop, from i on; its range 0..n was fixed before the
\* first insertion
RECURSIVE InsertionLoop(_, _, _)
InsertionLoop(m, i, n) ==
    IF i >= n THEN m
    ELSE LET curr_row == m[i + 1]
             next_row == m[i + 2]
         IN IF curr_row[MP] = next_row[MP] /\ FAdd(curr_row[CYCLE], 1) # next_row[CYCLE]
              THEN InsertionLoop(VecInsert(m, i + 1, InsertedRow(curr_row)), i + 1, n)
              ELSE InsertionLoop(m, i + 1, n)

\* MemoryTable::derive_matrix: with no row left, matrix.len() - 1 underflows (a panic
\* under overflow checks, and an index out of bounds on line 42 without them); with
\* rows, the loop runs and line 59 is todo!()
DeriveMatrix ==
    /\ derived.state = "idle"
    /\ LET sorted == SortByMp(FilterMap(processor_matrix))
       IN derived' =
              IF Len(sorted) = 0
                THEN [state |-> "panic", at |-> "empty", matrix |-> sorted]
                ELSE [state |-> "panic", at |-> "todo",
                      matrix |-> InsertionLoop(sorted, 0, Len(sorted) - 1)]
    /\ UNCHANGED <<processor_matrix, table, terminal, matrix, matrix0, padState, rows, cons>>
    /\ UNCHANGED <<inp, pc, timer, channel, loc, result, proof, built>>

\* MemoryTable::transition_constraints, evaluated at a pair of rows
\* mutant: constraint 3 reads the memory value of the current row
TransitionConstraintsStaleValue(cycle, mp, mem_val, dummy, cycle_next, mp_next, mem_val_next, dummy_next) ==
    LET one == 1 IN
    << FMul(FSub(FSub(mp_next, mp), one), FSub(mp_next, mp)),
       FMul(FSub(mp_next, mp), mem_val),
       FMul(FSub(dummy_next, one), dummy_next),
       FMul(FSub(mp_next, mp), dummy),
       FMul(FSub(mem_val_next, mem_val), dummy),
       FMul(FSub(FSub(mp_next, mp), one), FSub(FSub(cycle_next, cycle), one)) >>

\* mutant: constraint 7 asks for an unchanged cycle
TransitionConstraintsSameCycle(cycle, mp, mem_val, dummy, cycle_next, mp_next, mem_val_next, dummy_next) ==
    LET one == 1 IN
    << FMul(FSub(FSub(mp_next, mp), one), FSub(mp_next, mp)),
       FMul(FSub(mp_next, mp), mem_val_next),
       FMul(FSub(dummy_next, one), dummy_next),
       FMul(FSub(mp_next, mp), dummy),
       FMul(FSub(mem_val_next, mem_val), dummy),
       FMul(FSub(FSub(mp_next, mp), one), FSub(cycle_next, cycle)) >>

TransitionConstraints(cycle, mp, mem_val, dummy, cycle_next, mp_next, mem_val_next, dummy_next) ==
    LET one == 1 IN
    << \* 1. memory pointer increases by one or zero
       FMul(FSub(FSub(mp_next, mp), one), FSub(mp_next, mp)),
       \* 3. if the memory pointer increases by one, then the memory value must be set to zero
       FMul(FSub(mp_next, mp), mem_val_next),
       \* 4. dummy has to be zero or one
       FMul(FSub(dummy_next, one), dummy_next),
       \* 5. if dummy is set the memory pointer can not change
       FMul(FSub(mp_next, mp), dummy),
       \* 6. if dummy is set the memory value can not change
       FMul(FSub(mem_val_next, mem_val), dummy),
       \* 7. if the memory pointer remains the same, then the cycle has to increase by one
       FMul(FSub(FSub(mp_next, mp), one), FSub(FSub(cycle_next, cycle), one)) >>

\* Multivariate::variables(2 * w) at a pair of rows of width w: current row, then next row
Variables(w, cur, nxt) == [i \in 0..(2 * w - 1) |-> IF i < w THEN cur[i] ELSE nxt[i - w]]

\* MemoryTable::base_transition_constraints, evaluated at variables
BaseTransitionConstraints(variables) ==
    LET cycle == variables[CYCLE]
        mp == variables[MP]
        mem_val == variables[MEM_VAL]
        dummy == variables[DUMMY]
        cycle_next == variables[4 + CYCLE]
        mp_next == variables[4 + MP]
        mem_val_next == variables[4 + MEM_VAL]
        dummy_next == variables[4 + DUMMY]
    IN TransitionConstraints(cycle, mp, mem_val, dummy,
                             cycle_next, mp_next, mem_val_next, dummy_next)

\* mutant: the two selectors of the permutation constraint are swapped
PermutationConstraintSwapped(cycle, mp, mem_val, dummy, permutation, permutation_next, d, e, f, beta) ==
    FAdd(FMul(FSub(permutation_next,
                   FMul(permutation,
                        FSub(FSub(FSub(beta, FMul(cycle, d)), FMul(mp, e)), FMul(mem_val, f)))),
              dummy),
         FMul(FSub(permutation_next, permutation), FSub(dummy, 1)))

\* lines 185-192: the running product of the permutation argument
PermutationConstraint(cycle, mp, mem_val, dummy, permutation, permutation_next, d, e, f, beta) ==
    FAdd(FMul(FSub(permutation_next,
                   FMul(permutation,
                        FSub(FSub(FSub(beta, FMul(cycle, d)), FMul(mp, e)), FMul(mem_val, f)))),
              FSub(dummy, 1)),
         FMul(FSub(permutation_next, permutation), dummy))

\* MemoryTable::extension_transition_constraints, evaluated at variables;
\* challenges are a, b, c, d, e, f, alpha, beta, gamma, delta, eta in this order
ExtensionTransitionConstraints(challenges, variables) ==
    LET d == challenges[4]
        e == challenges[5]
        f == challenges[6]
        beta == challenges[8]
        cycle == variables[CYCLE]
        mp == variables[MP]
        mem_val == variables[MEM_VAL]
        dummy == variables[DUMMY]
        permutation == variables[PERMUTATION]
        cycle_next == variables[5 + CYCLE]
        mp_next == variables[5 + MP]
        mem_val_next == variables[5 + MEM_VAL]
        dummy_next == variables[5 + DUMMY]
        permutation_next == variables[5 + PERMUTATION]
        polynomials == TransitionConstraints(cycle, mp, mem_val, dummy,
                                             cycle_next, mp_next, mem_val_next, dummy_next)
    IN Append(polynomials,
              PermutationConstraint(cycle, mp, mem_val, dummy, permutation, permutation_next,
                                    d, e, f, beta))

\* mutant: the terminal constraint forgets the dummy flag of the last row
ExtensionTerminalConstraintsUnflagged(challenges, terminals, variables) ==
    LET d == challenges[4]
        e == challenges[5]
        f == challenges[6]
        beta == challenges[8]
        processor_memory_permutation_terminal == terminals[2]
        cycle == variables[CYCLE]
        mp == variables[MP]
        mem_val == variables[MEM_VAL]
        permutation == variables[PERMUTATION]
    IN << FSub(FMul(permutation,
                    FSub(FSub(FSub(beta, FMul(cycle, d)), FMul(mp, e)), FMul(mem_val, f))),
               processor_memory_permutation_terminal) >>

\* MemoryTable::extension_terminal_constraints, evaluated at variables (the last row);
\* terminals are the processor instruction permutation, processor memory permutation,
\* processor input evaluation, processor output evaluation and instruction evaluation
\* terminals in this order
ExtensionTerminalConstraints(challenges, terminals, variables) ==
    LET d == challenges[4]
        e == challenges[5]
        f == challenges[6]
        beta == challenges[8]
        processor_memory_permutation_terminal == terminals[2]
        cycle == variables[CYCLE]
        mp == variables[MP]
        mem_val == variables[MEM_VAL]
        dummy == variables[DUMMY]
        permutation == variables[PERMUTATION]
    IN << FAdd(FMul(FSub(FMul(permutation,
                              FSub(FSub(FSub(beta, FMul(cycle, d)), FMul(mp, e)),
                                   FMul(mem_val, f))),
                         processor_memory_permutation_terminal),
                    FSub(dummy, 1)),
               FMul(FSub(permutation, processor_memory_permutation_terminal), dummy)) >>

\* the constraints of the extended table are evaluated at a pair of adjacent rows
Evaluate ==
    /\ cons = <<>>
    /\ cons' = ExtensionTransitionConstraints(rows.challenges, Variables(5, rows.cur, rows.nxt))
    /\ UNCHANGED <<rows, matrix, matrix0, padState,
                   inp, pc, timer, channel, loc, result, proof, built>>
    /\ UNCHANGED <<processor_matrix, derived, table, terminal>>

\* derive_matrix not called
NotDerived == [state |-> "idle", at |-> "", matrix |-> <<>>]

IdleDerive == processor_matrix = <<>> /\ derived = NotDerived

IdleTerminal == table = <<>> /\ terminal = <<>>

IdleMem ==
    /\ matrix = <<>> /\ matrix0 = <<>> /\ padState = "idle"
    /\ IdleDerive
    /\ IdleTerminal

IdleCons == rows = <<>> /\ cons = <<>>

\* the cells tried: the small values and the largest element of the field
Cells == (0..MaxVal) \cup {P - 1}

\* MemoryTable::base_transition_constraints, evaluated at the pair of rows
EvaluateBase ==
    /\ cons = <<>>
    /\ cons' = BaseTransitionConstraints(Variables(4, rows.cur, rows.nxt))
    /\ UNCHANGED <<rows, matrix, matrix0, padState,
                   inp, pc, timer, channel, loc, result, proof, built>>
    /\ UNCHANGED <<processor_matrix, derived, table, terminal>>

\* the tables pad is tried on: up to MaxLen rows, the last one any row over Cells with
\* a dummy flag, the ones before it rows of consecutive cycles, real or dummy
InitialTables ==
    {<<>>} \cup
    UNION { { [i \in 1..n |-> IF i = n THEN last
                                       ELSE Row((i - 1) % P, 0, 0, flags[i])] :
                flags \in [1..(n - 1) -> {0, 1}],
                last \in { Row(c, m, v, y) : c \in Cells, m \in 0..MaxVal,
                                             v \in 0..MaxVal, y \in {0, 1} } } :
            n \in 1..MaxLen }

InitPad ==
    /\ IdleProver
    /\ IdleCons
    /\ matrix \in InitialTables
    /\ matrix0 = matrix
    /\ padState = "idle"
    /\ IdleDerive
    /\ IdleTerminal

SpecPad == InitPad /\ [][Pad]_vars

\* a row of the extended table: [cycle, mp, mem_val, dummy, permutation]
ExtRow(cycle, mp, mem_val, dummy, permutation) ==
    [col \in 0..4 |-> CASE col = CYCLE -> cycle
                        [] col = MP -> mp
                        [] col = MEM_VAL -> mem_val
                        [] col = DUMMY -> dummy
                        [] col = PERMUTATION -> permutation]

\* the pair of rows and the challenges the constraints are tried on: any current row
\* of small cells (with a dummy flag that may be neither 0 nor 1), any permutation_next
\* of the field, any small d, e, f and beta
InitCons ==
    /\ IdleProver
    /\ IdleMem
    /\ \E c \in 0..MaxChal, m \in 0..MaxChal, v \in 0..MaxChal, y \in {0, 1, 2},
          p \in 0..MaxChal, yn \in {0, 1}, pn \in E,
          d \in 0..MaxChal, e \in 0..MaxChal, f \in 0..MaxChal, beta \in 0..MaxChal :
           rows = [cur |-> ExtRow(c, m, v, y, p),
                   nxt |-> ExtRow(FAdd(c, 1), m, v, yn, pn),
                   challenges |-> <<0, 0, 0, d, e, f, 0, beta, 0, 0, 0>>]
    /\ cons = <<>>

SpecCons == InitCons /\ [][Evaluate]_vars

\* one more row under the extended table: any value, real or dummy, with a permutation
\* cell that makes the permutation constraint (the last of the extension transition
\* constraints) vanish on the pair it forms with the row above
AppendRow ==
    /\ terminal.cons = <<>>
    /\ Len(table) < MaxRows
    /\ \E v \in {0, 1}, y \in {0, 1}, pn \in E :
           LET last == table[Len(table)]
               row == ExtRow(FAdd(last[CYCLE], 1), last[MP], v, y, pn)
               polynomials ==
                   ExtensionTransitionConstraints(terminal.challenges, Variables(5, last, row))
           IN /\ polynomials[Len(polynomials)] = 0
              /\ table' = Append(table, row)
    /\ UNCHANGED <<terminal, processor_matrix, derived, matrix, matrix0, padState, rows, cons>>
    /\ UNCHANGED <<inp, pc, timer, channel, loc, result, proof, built>>

\* MemoryTable::extension_terminal_constraints, evaluated at the last row for a
\* claimed memory permutation terminal
EvaluateTerminal ==
    /\ terminal.cons = <<>>
    /\ \E t \in E :
           LET terminals == <<0, t, 0, 0, 0>>
           IN terminal' =
                  [terminal EXCEPT
                     !.terminals = terminals,
                     !.cons = ExtensionTerminalConstraints(terminal.challenges, terminals,
                                                           table[Len(table)])]
    /\ UNCHANGED <<table, processor_matrix, derived, matrix, matrix0, padState, rows, cons>>
    /\ UNCHANGED <<inp, pc, timer, channel, loc, result, proof, built>>

\* an extended table of one row (on memory cell 1, any value, real or dummy, a
\* non-zero permutation cell) and any small d, e, f and beta
InitTerminal ==
    /\ IdleProver
    /\ IdleCons
    /\ matrix = <<>> /\ matrix0 = <<>> /\ padState = "idle"
    /\ IdleDerive
    /\ \E v \in {0, 1}, y \in {0, 1}, p \in {1, 2},
          d \in 0..MaxChal, e \in 0..MaxChal, f \in 0..MaxChal, beta \in 0..MaxChal :
           /\ table = <<ExtRow(0, 1, v, y, p)>>
           /\ terminal = [challenges |-> <<0, 0, 0, d, e, f, 0, beta, 0, 0, 0>>,
                          terminals |-> <<>>, cons |-> <<>>]

SpecTerminal == InitTerminal /\ [][AppendRow \/ EvaluateTerminal]_vars

\* the pairs of base rows the constraints are evaluated at: any cells, honest or not
InitBase ==
    /\ IdleProver
    /\ IdleMem
    /\ \E c1 \in Cells, m1 \in Cells, v1 \in Cells, d1 \in Cells,
          c2 \in Cells, m2 \in Cells, v2 \in Cells, d2 \in Cells :
           rows = [cur |-> Row(c1, m1, v1, d1), nxt |-> Row(c2, m2, v2, d2)]
    /\ cons = <<>>

SpecBase == InitBase /\ [][EvaluateBase]_vars

\* the processor matrices derive_matrix is tried on: up to MaxProc rows of consecutive
\* cycles, the pointer on one of two cells, running (CURR_INSTR = 1) or not
InitDerive ==
    /\ IdleProver
    /\ IdleCons
    /\ matrix = <<>> /\ matrix0 = <<>> /\ padState = "idle"
    /\ IdleTerminal
    /\ \E n \in 0..MaxProc :
           \E mps \in [1..n -> {0, 1}], vals \in [1..n -> {0, 1}], instrs \in [1..n -> {0, 1}] :
               processor_matrix =
                   [i \in 1..n |-> ProcessorRow((i - 1) % P, mps[i], vals[i], instrs[i])]
    /\ derived = NotDerived

SpecDerive == InitDerive /\ [][DeriveMatrix]_vars

(***************************************************************************)
(* Specifications.                                                         *)
(***************************************************************************)
\* one run of generate_proof
Init == InitProver /\ IdleMem /\ IdleCons

Next ==
    /\ Step(1)
    /\ UNCHANGED <<matrix, matrix0, padState, rows, cons>>
    /\ UNCHANGED <<processor_matrix, derived, table, terminal>>

Spec == Init /\ [][Next]_vars

\* two runs of generate_proof on the same trace, public inputs and options
NextDet ==
    /\ \/ Step(1)
       \/ result[1] # "running" /\ Step(2)
    /\ UNCHANGED <<matrix, matrix0, padState, rows, cons>>
    /\ UNCHANGED <<processor_matrix, derived, table, terminal>>

SpecDet == Init /\ [][NextDet]_vars

(***************************************************************************)
(* Properties of generate_proof.                                           *)
(***************************************************************************)
IsPrefix(s, t) == Len(s) <= Len(t) /\ \A i \in 1..Len(s) : s[i] = t[i]

Has(c, op) == \E i \in 1..Len(c.log) : c.log[i].op = op

\* the place of the first call op in the record of the channel, 0 when there is none
Idx(c, op) == IF Has(c, op) THEN CHOOSE i \in 1..Len(c.log) :
                                    /\ c.log[i].op = op
                                    /\ \A j \in 1..(i - 1) : c.log[j].op # op
                            ELSE 0

\* when b was called, a was called before it
Before(c, a, b) == Has(c, b) => (Has(c, a) /\ Idx(c, a) < Idx(c, b))

Ended(r) == result[r] # "running"

Aborted(r, p) == pc[r] = p /\ result[r] = "panic"

\* the steps of the transcript, in the order the protocol fixes
TranscriptOrder ==
    <<"commit_base_trace", "get_challenges">>
    \o (IF inp.ext.some THEN <<"commit_extension_trace">> ELSE <<>>)
    \o <<"get_constraint_composition_coeffs", "commit_composition_trace", "get_ood_point",
         "get_deep_composition_coeffs", "build_layers", "grind_fri_commitments",
         "get_fri_query_positions">>

OrderedSteps(c) ==
    SelectSeq(Ops(c), LAMBDA op : \E i \in 1..Len(TranscriptOrder) : TranscriptOrder[i] = op)

\* C1: at every moment of a run the protocol steps taken so far on the channel are an
\* initial part of the fixed order (base root, challenges, extension root when there
\* are extension columns, composition coefficients, composition root, OOD point, DEEP
\* coefficients, FRI layers, grinding, query positions), each taken once, and a run
\* that completes has taken them all.
C1_TranscriptOrder ==
    \A r \in Runs :
        /\ IsPrefix(OrderedSteps(channel[r]), TranscriptOrder)
        /\ result[r] = "Ok" => OrderedSteps(channel[r]) = TranscriptOrder

C1_Witness == result[1] = "Ok" /\ inp.ext.some

\* C2: every root and every set of out-of-domain evaluations is absorbed before the
\* next challenge is drawn (base root before the AIR challenges, extension root before
\* the composition coefficients, composition root before z, both sets of evaluations
\* after z and before the DEEP coefficients), and an absorbed value was computed only
\* from challenges drawn before it was absorbed.
C2_AbsorbedBeforeNextDraw ==
    \A r \in Runs :
        LET c == channel[r] IN
        /\ Before(c, "commit_base_trace", "get_challenges")
        /\ inp.ext.some =>
               Before(c, "commit_extension_trace", "get_constraint_composition_coeffs")
        /\ Before(c, "commit_composition_trace", "get_ood_point")
        /\ Before(c, "get_ood_point", "send_ood_trace_states")
        /\ Before(c, "get_ood_point", "send_ood_constraint_evaluations")
        /\ Before(c, "send_ood_trace_states", "get_deep_composition_coeffs")
        /\ Before(c, "send_ood_constraint_evaluations", "get_deep_composition_coeffs")
        /\ \A i \in 1..Len(c.log) :
               c.log[i].kind = "absorb" =>
                   \A d \in c.log[i].deps :
                       \E j \in 1..(i - 1) : c.log[j].op = d /\ c.log[j].kind = "draw"

C2_Witness ==
    /\ Has(channel[1], "get_deep_composition_coeffs")
    /\ inp.ext.some
    /\ \E i \in 1..Len(channel[1].log) :
           /\ channel[1].log[i].op = "send_ood_constraint_evaluations"
           /\ "get_ood_point" \in channel[1].log[i].deps

C4_ProofOnceAtEnd ==
    \A r \in Runs :
        /\ result[r] # "Err"
        /\ built[r] <= 1
        /\ proof[r].some <=> result[r] = "Ok"
        /\ proof[r].some =>
               /\ built[r] = 1
               /\ pc[r] = "done"
               /\ Len(channel[r].log) > 0
               /\ channel[r].log[Len(channel[r].log)].op = "get_fri_query_positions"
               /\ loc[r].query_positions.deps = {"get_fri_query_positions"}
               /\ proof[r].fri_proof.positions = loc[r].query_positions
               /\ proof[r].queries.positions = loc[r].query_positions
        /\ result[r] = "panic" => built[r] = 0 /\ ~proof[r].some

C4_Witness == proof[1].some /\ result[1] = "Ok"

\* C5: the AIR is validated before the channel exists: a run that validate() aborts
\* has created no channel, absorbed nothing and drawn nothing, and a run on a trace
\* validate() rejects never has a channel.
C5_ValidateBeforeChannel ==
    \A r \in Runs :
        /\ Aborted(r, "validate") => ~channel[r].created /\ channel[r].log = <<>>
        /\ ~inp.shapeOk => ~channel[r].created /\ channel[r].log = <<>>
        /\ channel[r].created => inp.shapeOk

C5_Witness == Aborted(1, "validate") /\ ~inp.shapeOk

ExtensionWidth == IF inp.ext.some THEN inp.ext.cols ELSE 0

ColumnMismatch == inp.numBase # inp.baseCols \/ inp.numExt # ExtensionWidth

\* C6: a run goes past line 46 only with NUM_BASE_COLUMNS base columns and past line
\* 73 only with NUM_EXTENSION_COLUMNS extension columns (0 for None); when either
\* count is off, no composition coefficient is drawn and no proof is produced.
C6_ColumnCountsChecked ==
    \A r \in Runs :
        /\ pc[r] \notin {"start", "validate", "channel", "interpolate"} =>
               inp.numBase = inp.baseCols
        /\ pc[r] \notin {"start", "validate", "channel", "interpolate", "commit_base_trace",
                         "get_challenges", "extension", "assert_extension"} =>
               inp.numExt = ExtensionWidth
        /\ ColumnMismatch =>
               /\ ~Has(channel[r], "get_constraint_composition_coeffs")
               /\ ~proof[r].some
               /\ result[r] # "Ok"

C6_Witness ==
    /\ Aborted(1, "assert_extension")
    /\ inp.numBase = inp.baseCols
    /\ inp.numExt # ExtensionWidth
    /\ ~inp.ext.some

\* C7 as stated: when validate_constraints aborts a debug run, no commitment root has
\* been pushed into the transcript.
C7_DetectedBeforeAnyCommit ==
    \A r \in Runs :
        Aborted(r, "validate_constraints") =>
            \A i \in 1..Len(channel[r].log) : channel[r].log[i].kind # "absorb"

\* C7, amended: in a debug build a trace that violates a constraint is detected after
\* the base trace root (and the extension trace root, when there are extension
\* columns) was pushed and the AIR challenges drawn, and before any composition
\* coefficient is drawn or the composition trace root is pushed; no proof is produced.
C7_DetectedBeforeComposition ==
    \A r \in Runs :
        /\ (inp.debug /\ ~inp.traceOk) =>
               /\ ~Has(channel[r], "get_constraint_composition_coeffs")
               /\ ~Has(channel[r], "commit_composition_trace")
               /\ ~proof[r].some
        /\ Aborted(r, "validate_constraints") =>
               /\ inp.debug /\ ~inp.traceOk
               /\ OrderedSteps(channel[r]) =
                      <<"commit_base_trace", "get_challenges">>
                      \o (IF inp.ext.some THEN <<"commit_extension_trace">> ELSE <<>>)

C7_Witness == Aborted(1, "validate_constraints") /\ inp.ext.some

(***************************************************************************)
(* Properties of the memory table.                                         *)
(***************************************************************************)
\* the smallest power of two that is at least n
SmallestPowerOfTwo(n) ==
    CHOOSE q \in 1..(2 * n + 1) :
        /\ IsPowerOfTwo(q)
        /\ q >= n
        /\ \A q2 \in 1..(q - 1) : ~(IsPowerOfTwo(q2) /\ q2 >= n)

Prefix(m, n) == [i \in 1..n |-> m[i]]

\* C8: for any length n of the table, after pad the row count is the smallest power of
\* two >= n, the first n rows are the rows before pad, and a table whose length was a
\* power of two is unchanged.
C8_PadToPowerOfTwo ==
    padState # "idle" =>
        /\ Len(matrix) = SmallestPowerOfTwo(Len(matrix0))
        /\ Prefix(matrix, Len(matrix0)) = matrix0
        /\ IsPowerOfTwo(Len(matrix0)) => matrix = matrix0

\* C8 on the tables pad returns on: pad panics exactly on the empty table, and on
\* every other table it does what C8 says.
PadOfNonEmptyTable ==
    /\ padState = "panic" <=> (padState # "idle" /\ Len(matrix0) = 0)
    /\ padState = "done" =>
           /\ Len(matrix) = SmallestPowerOfTwo(Len(matrix0))
           /\ Prefix(matrix, Len(matrix0)) = matrix0
           /\ IsPowerOfTwo(Len(matrix0)) => matrix = matrix0

\* C9: every row pad appended makes all six base transition constraints vanish
\* against the row before it, be that row real, dummy or itself appended by pad.
C9_PaddingRowsSatisfyConstraints ==
    padState = "done" =>
        \A i \in (Len(matrix0) + 1)..Len(matrix) :
            LET polynomials == BaseTransitionConstraints(Variables(4, matrix[i - 1], matrix[i]))
            IN /\ Len(polynomials) = 6
               /\ \A k \in 1..6 : polynomials[k] = 0

C9_Witness ==
    /\ padState = "done"
    /\ Len(matrix) >= Len(matrix0) + 2
    /\ matrix0[Len(matrix0)][DUMMY] = 0
    /\ matrix0[Len(matrix0)][CYCLE] = P - 1
    /\ matrix0[Len(matrix0)][MP] # 0
    /\ matrix0[Len(matrix0)][MEM_VAL] # 0

\* beta - d*cycle - e*mp - f*mem_val, in the field
Compressed(r) ==
    LET lin == r.challenges[4] * r.cur[CYCLE] + r.challenges[5] * r.cur[MP]
               + r.challenges[6] * r.cur[MEM_VAL]
    IN (r.challenges[8] + P * lin - lin) % P

\* C10: on a pair of rows whose current dummy flag is 0 or 1, the permutation
\* constraint (the last of the extension transition constraints) vanishes exactly when
\* permutation_next = permutation * (beta - d*cycle - e*mp - f*mem_val) for dummy = 0,
\* and exactly when permutation_next = permutation for dummy = 1.
C10_PermutationRunningProduct ==
    (cons # <<>> /\ rows.cur[DUMMY] \in {0, 1}) =>
        /\ Len(cons) = 7
        /\ cons[7] = 0 <=>
               IF rows.cur[DUMMY] = 0
                 THEN rows.nxt[PERMUTATION] = (rows.cur[PERMUTATION] * Compressed(rows)) % P
                 ELSE rows.nxt[PERMUTATION] = rows.cur[PERMUTATION]

C10_Witness ==
    /\ cons # <<>>
    /\ rows.cur[DUMMY] = 0
    /\ cons[7] = 0
    /\ rows.cur[PERMUTATION] # 0
    /\ rows.nxt[PERMUTATION] # rows.cur[PERMUTATION]
    /\ rows.nxt[PERMUTATION] # 0
    /\ rows.challenges[4] * rows.cur[CYCLE] # 0

(***************************************************************************)
(* MemoryTable::derive_matrix                                              *)
(***************************************************************************)

\* derive_matrix has ended, one way or the other
Derived == derived.state # "idle"

\* derive_matrix reached the end of its insertion loop
LoopDone == derived.state # "idle" /\ derived.at = "todo"

\* the rows of m whose dummy flag is d
WithDummy(m, d) == SelectSeq(m, LAMBDA row : row[DUMMY] = d)

\* the processor rows of a running program that sit on memory cell mp, projected
RunningAt(mp) ==
    LET on == SelectSeq(processor_matrix, LAMBDA row : row.CURR_INSTR # 0 /\ row.MP = mp)
    IN [i \in 1..Len(on) |-> Row(on[i].CYCLE, on[i].MP, on[i].MEM_VAL, 0)]

\* C11: for every non-empty processor matrix derive_matrix terminates normally and
\* returns the interwoven matrix.
C11_DeriveMatrixReturns ==
    (Derived /\ Len(processor_matrix) > 0) => derived.state = "returned"

\* what the code does instead: every call ends in a panic
DeriveMatrixPanics == Derived => derived.state = "panic"

\* C13: after the insertion loop, every adjacent pair of rows with the same MP has
\* CYCLE_next = CYCLE + 1, however many gaps there are and however large they are.
C13_NoCycleGapLeft ==
    LoopDone =>
        \A i \in 1..(Len(derived.matrix) - 1) :
            derived.matrix[i][MP] = derived.matrix[i + 1][MP] =>
                derived.matrix[i + 1][CYCLE] = FAdd(derived.matrix[i][CYCLE], 1)

\* C17: the insertion loop only adds rows.  The rows with DUMMY = 0 are the processor
\* rows with a non-zero CURR_INSTR, projected to (CYCLE, MP, MEM_VAL), in non-decreasing
\* MP order and, within one MP, in the order of the input; every inserted row has
\* DUMMY = 1, the MP and MEM_VAL of the row before it and that row's CYCLE plus one.
C17_LoopOnlyAddsRows ==
    LoopDone =>
        LET m == derived.matrix
            real == WithDummy(m, 0)
        IN /\ \A i \in 1..Len(m) : m[i][DUMMY] \in {0, 1}
           /\ \A i \in 1..(Len(real) - 1) : real[i][MP] <= real[i + 1][MP]
           /\ \A mp \in E : SelectSeq(real, LAMBDA row : row[MP] = mp) = RunningAt(mp)
           /\ \A i \in 1..Len(m) :
                  m[i][DUMMY] = 1 =>
                      /\ i > 1
                      /\ m[i] = Row(FAdd(m[i - 1][CYCLE], 1), m[i - 1][MP], m[i - 1][MEM_VAL], 1)

\* a row was inserted after an inserted row, the table has rows of two memory cells
\* and the input had a row that is filtered out
C17_Witness ==
    /\ LoopDone
    /\ \E i \in 2..Len(derived.matrix) :
           derived.matrix[i][DUMMY] = 1 /\ derived.matrix[i - 1][DUMMY] = 1
    /\ \E i \in 1..Len(derived.matrix) : derived.matrix[i][MP] # derived.matrix[1][MP]
    /\ \E i \in 1..Len(processor_matrix) : processor_matrix[i].CURR_INSTR = 0
    /\ Len(WithDummy(derived.matrix, 0)) >= 3

(***************************************************************************)
(* The base transition constraints of the memory table                     *)
(***************************************************************************)

\* all the listed transition constraints vanish on the pair of rows
AllVanish == cons # <<>> /\ \A i \in 1..Len(cons) : cons[i] = 0

\* C14: a pair of rows makes all six base transition constraints vanish if and only
\* if mp_next - mp is 0 or 1; mp_next = mp + 1 implies mem_val_next = 0; dummy_next is
\* 0 or 1; a non-zero dummy implies mp_next = mp and mem_val_next = mem_val; and
\* mp_next = mp implies cycle_next = cycle + 1.
C14_BaseConstraintsMeaning ==
    cons # <<>> =>
        /\ Len(cons) = 6
        /\ AllVanish <=>
               /\ FSub(rows.nxt[MP], rows.cur[MP]) \in {0, 1}
               /\ rows.nxt[MP] = FAdd(rows.cur[MP], 1) => rows.nxt[MEM_VAL] = 0
               /\ rows.nxt[DUMMY] \in {0, 1}
               /\ rows.cur[DUMMY] # 0 =>
                      rows.nxt[MP] = rows.cur[MP] /\ rows.nxt[MEM_VAL] = rows.cur[MEM_VAL]
               /\ rows.nxt[MP] = rows.cur[MP] => rows.nxt[CYCLE] = FAdd(rows.cur[CYCLE], 1)

\* a pair that passes from a dummy row: same cell, same value, the next cycle, which
\* wraps around the field
C14_Witness ==
    /\ AllVanish
    /\ rows.cur[DUMMY] = 1
    /\ rows.cur[MEM_VAL] # 0
    /\ rows.cur[CYCLE] = P - 1
    /\ rows.nxt[DUMMY] = 1

PastExtension(r) ==
    pc[r] \notin {"start", "validate", "channel", "interpolate", "commit_base_trace",
                  "get_challenges", "extension"}

\* the run has built its queries
PastQueries(r) == pc[r] \in {"build_proof", "done"}

\* how often op was called on the channel
Calls(c, op) == Cardinality({i \in 1..Len(c.log) : c.log[i].op = op})

\* the columns of the execution trace: the base columns, then the extension columns
\* when build_extension_columns returned Some
ExecutionColumns ==
    Columns("base", inp.baseCols)
    \o (IF inp.ext.some THEN Columns("extension", inp.ext.cols) ELSE <<>>)

\* C16: the extension phase is all-or-nothing.  The extension root is committed to the
\* channel exactly when build_extension_columns returns Some, and then the extension
\* columns are appended after the base columns to the execution-trace LDE and to the
\* execution-trace polynomials; when it returns None no extension root is absorbed,
\* the extension tree passed to the queries is None, and the constraint composer and
\* the DEEP composer see only the base columns.
C16_ExtensionAllOrNothing ==
    /\ Calls(channel[1], "commit_extension_trace")
           = (IF PastExtension(1) /\ inp.ext.some THEN 1 ELSE 0)
    /\ PastExtension(1) =>
           /\ loc[1].lde_layout = ExecutionColumns
           /\ loc[1].polys_layout = ExecutionColumns
           /\ loc[1].extension_trace_tree.some = inp.ext.some
           /\ loc[1].num_extension_columns = (IF inp.ext.some THEN inp.ext.cols ELSE 0)
    /\ loc[1].composer_layout # <<>> => loc[1].composer_layout = ExecutionColumns
    /\ loc[1].deep_layout # <<>> => loc[1].deep_layout = ExecutionColumns
    /\ PastQueries(1) => loc[1].queries.extension = loc[1].extension_trace_tree

\* a run with extension columns that built its proof
C16_Witness ==
    /\ proof[1].some
    /\ inp.ext.some
    /\ Has(channel[1], "commit_extension_trace")
    /\ loc[1].queries.extension.some
    /\ loc[1].deep_layout = Columns("base", inp.baseCols) \o Columns("extension", inp.ext.cols)
    /\ loc[1].composer_layout = loc[1].deep_layout

\* a run without extension columns that built its proof
NoExtensionRun ==
    /\ proof[1].some
    /\ ~inp.ext.some
    /\ ~loc[1].queries.extension.some
    /\ loc[1].deep_layout = Columns("base", inp.baseCols)
    /\ loc[1].composer_layout = Columns("base", inp.baseCols)

(***************************************************************************)
(* The out-of-domain point                                                 *)
(***************************************************************************)

\* the places in the record of the channel where op was called
Places(c, op) == {i \in 1..Len(c.log) : c.log[i].op = op}

Factor(challenges, row) ==
    (challenges[8] - challenges[4] * row[CYCLE] - challenges[5] * row[MP]
       - challenges[6] * row[MEM_VAL]) % P

\* the product of the factors of the rows of t that are not dummy rows
RECURSIVE RealProduct(_, _)
RealProduct(challenges, t) ==
    IF Len(t) = 0 THEN 1
    ELSE LET front == RealProduct(challenges, SubSeq(t, 1, Len(t) - 1))
             row == t[Len(t)]
         IN IF row[DUMMY] = 0 THEN (front * Factor(challenges, row)) % P ELSE front

\* C18: dummy and padding rows do not change the memory permutation argument.  On a
\* table whose dummy flags are 0 or 1 and whose adjacent pairs satisfy the permutation
\* constraint, the terminal constraint vanishes on the last row exactly for the terminal
\* that is the permutation cell of the first row times the product, over the rows with
\* DUMMY = 0, of (beta - d*cycle - e*mp - f*mem_val); rows with DUMMY = 1, wherever
\* they stand, put nothing into it.
C18_DummyRowsKeepTerminal ==
    terminal # <<>> =>
        /\ \A i \in 1..Len(table) : table[i][DUMMY] \in {0, 1}
        /\ terminal.cons # <<>> =>
               /\ Len(terminal.cons) = 1
               /\ terminal.cons[1] = 0 <=>
                      terminal.terminals[2]
                          = (table[1][PERMUTATION] * RealProduct(terminal.challenges, table)) % P

\* the terminal constraint vanishes on a table that ends in a dummy row, has a dummy
\* row between real rows, and whose product is neither 0 nor 1
C18_Witness ==
    /\ terminal # <<>>
    /\ terminal.cons = <<0>>
    /\ Len(table) = MaxRows
    /\ table[Len(table)][DUMMY] = 1
    /\ \E i \in 2..(Len(table) - 1) : table[i][DUMMY] = 1 /\ table[i - 1][DUMMY] = 0
    /\ RealProduct(terminal.challenges, table) \notin {0, 1}
    /\ terminal.terminals[2] # table[1][PERMUTATION]

=============================================================================
